---- MODULE Spec2Model ----
(***************************************************************************)
(* Haptic knob firmware (HapticKnobFirmware.ino).                          *)
(*                                                                         *)
(* The source file holds two variants of the sketch (lines 1-308 and       *)
(* 310-728).  They differ in the "Switch" preset and in the guard of       *)
(* doSetStepsPerRev; the variable `variant` selects which one runs.         *)
(*                                                                         *)
(* Numbers.  Angles and the P-gain are `float` in the source.  They are    *)
(* modelled as integers counting thousandths (0.001 rad, 0.001 gain), and  *)
(* quotients of two such numbers are kept exact (a rounded quotient is     *)
(* computed from numerator and denominator, a target angle is a fraction   *)
(* num/den).  Binary floating-point rounding error is not modelled.        *)
(***************************************************************************)
EXTENDS Integers, Sequences, FiniteSets, TLC

VARIABLES
  variant,                \* which of the two sketches in the file is running
  preset_modes,           \* KnobSettings preset_modes[MAX_PRESET_MODES]
  current_preset_mode_idx,
  current_knob_settings,  \* active configuration
  current_step_output,
  last_reported_step,
  motor_shaft_offset,
  shaft_angle,            \* motor.shaft_angle
  P_angle_P,              \* motor.P_angle.P
  move_target,            \* argument of the last motor.move(), a fraction
  serial_out,             \* lines printed by the most recent handler
  pc,                     \* position inside loop()
  history,                \* the last two handlers that ran (newest first)
  settings_changed,       \* a command changed the configuration since the last tick
  ncmds,                  \* commands dispatched so far
  nloops                  \* loop() iterations started so far

vars == <<variant, preset_modes, current_preset_mode_idx, current_knob_settings,
          current_step_output, last_reported_step, motor_shaft_offset,
          shaft_angle, P_angle_P, move_target, serial_out, pc, history,
          settings_changed, ncmds, nloops>>

----------------------------------------------------------------------------
(* Bounds of the model *)

MaxCmds == 2

MaxLoops == 2

----------------------------------------------------------------------------
(* Program constants (angles and gains in thousandths) *)

MAX_PRESET_MODES == 6

SENTINEL == -99999

PI_MILLI == 3142

TWO_PI_MILLI == 6283

SPAN_EPSILON == 1

Variants == {1, 2}

\* shaft angles the sensor can report, in thousandths of a radian; the first
\* one is 277.8 turns below zero, where 360 steps per turn give step -99999
Angles == {-1745260, 0, 785, 7000}

\* command arguments as typed on the serial line, one character per element:
\* for the preset command,
IndexTexts == { <<"0">>, <<"1">>, <<"3">>, <<"5">>, <<"7">>, <<"-", "1">>, <<"a">> }

\* for num_detents and steps_per_revolution,
CountTexts == { <<"0">>, <<"1">>, <<"-", "1">>, <<"a">> }

\* for is_bounded,
FlagTexts == { <<"0">>, <<"1">>, <<"7">>, <<"-", "1">>, <<"a">> }

\* for detent_strength, min_angle and max_angle
FloatTexts == { <<"0">>, <<"1", ".", "5">>, <<"-", "1">>, <<"a">> }

----------------------------------------------------------------------------
(* Text to number: atoi / atof of the C library *)

DigitVal == [c \in {"0", "1", "2", "3", "4", "5", "6", "7", "8", "9"} |->
               CASE c = "0" -> 0 [] c = "1" -> 1 [] c = "2" -> 2 [] c = "3" -> 3
                 [] c = "4" -> 4 [] c = "5" -> 5 [] c = "6" -> 6 [] c = "7" -> 7
                 [] c = "8" -> 8 [] c = "9" -> 9]

IsDigit(c) == c \in DOMAIN DigitVal

RECURSIVE SkipSpace(_, _)
SkipSpace(s, i) ==
  IF i <= Len(s) /\ s[i] = " " THEN SkipSpace(s, i + 1) ELSE i

\* value of the decimal digits of s starting at i, continuing acc
RECURSIVE DigitsFrom(_, _, _)
DigitsFrom(s, i, acc) ==
  IF i <= Len(s) /\ IsDigit(s[i])
    THEN DigitsFrom(s, i + 1, 10 * acc + DigitVal[s[i]])
    ELSE acc

\* index of the first character at or after i that is not a digit
RECURSIVE DigitsEnd(_, _)
DigitsEnd(s, i) ==
  IF i <= Len(s) /\ IsDigit(s[i]) THEN DigitsEnd(s, i + 1) ELSE i

\* sign and index of the first digit
SignAt(s) ==
  LET i == SkipSpace(s, 1)
  IN  IF i <= Len(s) /\ s[i] = "-" THEN [sign |-> -1, at |-> i + 1]
      ELSE IF i <= Len(s) /\ s[i] = "+" THEN [sign |-> 1, at |-> i + 1]
      ELSE [sign |-> 1, at |-> i]

\* atoi: optional blanks, optional sign, digits up to the first non-digit;
\* text without leading digits gives 0
atoi(s) ==
  LET p == SignAt(s)
  IN  p.sign * DigitsFrom(s, p.at, 0)

\* the first three fraction digits of s starting at i, as thousandths
FractionMilli(s, i) ==
  LET d(k) == IF i + k <= DigitsEnd(s, i) - 1 THEN DigitVal[s[i + k]] ELSE 0
  IN  100 * d(0) + 10 * d(1) + d(2)

\* atof, result in thousandths: optional blanks, sign, digits, optional
\* point and fraction (digits beyond the third are dropped); text without
\* leading digits gives 0
atof(s) ==
  LET p == SignAt(s)
      e == DigitsEnd(s, p.at)
      whole == DigitsFrom(s, p.at, 0)
      frac == IF e <= Len(s) /\ s[e] = "." THEN FractionMilli(s, e + 1) ELSE 0
  IN  p.sign * (1000 * whole + frac)

----------------------------------------------------------------------------
(* Arithmetic helpers of the sketch *)

\* Arduino constrain(amt, low, high)
constrain(amt, low, high) ==
  IF amt < low THEN low ELSE IF amt > high THEN high ELSE amt

\* round(p / q) for q > 0: nearest integer, halves away from zero
RoundPos(p, q) == (p \div q) + (IF 2 * (p % q) >= q THEN 1 ELSE 0)

round(p, q) == IF p >= 0 THEN RoundPos(p, q) ELSE -RoundPos(-p, q)

Frac(n, d) == [num |-> n, den |-> d]

\* constrain() applied to a fraction with integer limits
constrainFrac(f, low, high) ==
  IF f.num < low * f.den THEN Frac(low, 1)
  ELSE IF f.num > high * f.den THEN Frac(high, 1)
  ELSE f

----------------------------------------------------------------------------
(* Configuration model *)

KnobSettings(n, b, lo, hi, d, p, r) ==
  [name |-> n, is_bounded |-> b, min_angle_rad |-> lo, max_angle_rad |-> hi,
   num_detents |-> d, detent_strength_P |-> p, steps_per_revolution |-> r]

\* the preset table written by setup(); min/max of the unbounded presets are
\* 0 (assigned in the second sketch, zero-initialised globals in the first)
PresetTable(v) ==
  [i \in 0 .. MAX_PRESET_MODES - 1 |->
     CASE i = 0 -> KnobSettings("Unbounded Smooth", FALSE, 0, 0, 0, 10000, 360)
       [] i = 1 -> KnobSettings("Unbounded 12 Detents", FALSE, 0, 0, 12, 25000, 12)
       [] i = 2 -> KnobSettings("Bounded 0-180deg, 8 Det", TRUE, 0, PI_MILLI, 8, 15000, 8)
       [] i = 3 -> KnobSettings("Volume Knob (0-100)", TRUE, 0, TWO_PI_MILLI, 100, 25000, 100)
       [] i = 4 -> KnobSettings("Fine Adjust Unbounded", FALSE, 0, 0, 72, 30000, 72)
       [] i = 5 -> IF v = 1
                     THEN KnobSettings("Switch (4-pos)", TRUE, 0, 1570, 3, 30000, 3)
                     ELSE KnobSettings("Switch", TRUE, 0, 1570, 1, 30000, 1)]

----------------------------------------------------------------------------
(* Haptic transform and step quantizer: the two computations of loop() *)

\* HapticTarget with the wall of the smooth bounded mode left out
HapticTarget_NoWall(raw, s, offset) ==
  IF s.is_bounded
    THEN LET min_b == s.min_angle_rad
             max_b == s.max_angle_rad
             bounded_span == max_b - min_b
         IN  IF bounded_span <= SPAN_EPSILON
               THEN Frac(constrain(raw, min_b, max_b), 1)
               ELSE IF s.num_detents > 0
                 THEN LET n == s.num_detents
                          idx == constrain(round((raw - min_b) * n, bounded_span), 0, n)
                      IN  constrainFrac(Frac(min_b * n + idx * bounded_span, n),
                                        min_b, max_b)
                 ELSE Frac(raw, 1)
    ELSE IF s.num_detents > 0
           THEN LET n == s.num_detents
                    k == round((raw - offset) * n, TWO_PI_MILLI)
                IN  Frac(k * TWO_PI_MILLI + offset * n, n)
           ELSE Frac(raw, 1)

\* HapticTarget with the detent index limited to n - 1 (n snap points)
HapticTarget_OneDetentShort(raw, s, offset) ==
  IF s.is_bounded
    THEN LET min_b == s.min_angle_rad
             max_b == s.max_angle_rad
             bounded_span == max_b - min_b
         IN  IF bounded_span <= SPAN_EPSILON
               THEN Frac(constrain(raw, min_b, max_b), 1)
               ELSE IF s.num_detents > 0
                 THEN LET n == s.num_detents
                          idx == constrain(round((raw - min_b) * n, bounded_span),
                                           0, n - 1)
                      IN  constrainFrac(Frac(min_b * n + idx * bounded_span, n),
                                        min_b, max_b)
                 ELSE Frac(constrain(raw, min_b, max_b), 1)
    ELSE IF s.num_detents > 0
           THEN LET n == s.num_detents
                    k == round((raw - offset) * n, TWO_PI_MILLI)
                IN  Frac(k * TWO_PI_MILLI + offset * n, n)
           ELSE Frac(raw, 1)

\* the angle handed to motor.move(), as a fraction of thousandths
HapticTarget(raw, s, offset) ==
  IF s.is_bounded
    THEN LET min_b == s.min_angle_rad
             max_b == s.max_angle_rad
             bounded_span == max_b - min_b
         IN  IF bounded_span <= SPAN_EPSILON
               THEN Frac(constrain(raw, min_b, max_b), 1)
               ELSE IF s.num_detents > 0
                 THEN LET n == IF s.num_detents > 0 THEN s.num_detents ELSE 1
                          \* detent_spacing = bounded_span / n
                          idx == constrain(round((raw - min_b) * n, bounded_span), 0, n)
                      IN  constrainFrac(Frac(min_b * n + idx * bounded_span, n),
                                        min_b, max_b)
                 ELSE Frac(constrain(raw, min_b, max_b), 1)
    ELSE IF s.num_detents > 0
           THEN LET n == IF s.num_detents > 0 THEN s.num_detents ELSE 1
                    \* detent_spacing = 2pi / n
                    k == round((raw - offset) * n, TWO_PI_MILLI)
                IN  Frac(k * TWO_PI_MILLI + offset * n, n)
           ELSE Frac(raw, 1)

\* StepOutput that cuts the quotient off instead of rounding it
StepOutput_Truncates(raw, s, offset) ==
  IF s.steps_per_revolution > 0
    THEN IF s.is_bounded
           THEN LET min_b == s.min_angle_rad
                    max_b == s.max_angle_rad
                    bounded_span == max_b - min_b
                IN  IF bounded_span > SPAN_EPSILON
                      THEN LET angle_in_span == constrain(raw - min_b, 0, bounded_span)
                           IN  constrain((angle_in_span * s.steps_per_revolution)
                                           \div bounded_span,
                                         0, s.steps_per_revolution)
                      ELSE 0
           ELSE round((raw - offset) * s.steps_per_revolution, TWO_PI_MILLI)
    ELSE 0

\* StepOutput without the clamp of the angle to the span and of the step
StepOutput_NoClamp(raw, s, offset) ==
  IF s.steps_per_revolution > 0
    THEN IF s.is_bounded
           THEN LET min_b == s.min_angle_rad
                    max_b == s.max_angle_rad
                    bounded_span == max_b - min_b
                IN  IF bounded_span > SPAN_EPSILON
                      THEN round((raw - min_b) * s.steps_per_revolution, bounded_span)
                      ELSE 0
           ELSE round((raw - offset) * s.steps_per_revolution, TWO_PI_MILLI)
    ELSE 0

\* StepOutput that takes every positive span as valid
StepOutput_ZeroEpsilon(raw, s, offset) ==
  IF s.steps_per_revolution > 0
    THEN IF s.is_bounded
           THEN LET min_b == s.min_angle_rad
                    max_b == s.max_angle_rad
                    bounded_span == max_b - min_b
                IN  IF bounded_span > 0
                      THEN LET angle_in_span == constrain(raw - min_b, 0, bounded_span)
                           IN  constrain(round(angle_in_span * s.steps_per_revolution,
                                               bounded_span),
                                         0, s.steps_per_revolution)
                      ELSE 0
           ELSE round((raw - offset) * s.steps_per_revolution, TWO_PI_MILLI)
    ELSE 0

\* new_step_output
StepOutput(raw, s, offset) ==
  IF s.steps_per_revolution > 0
    THEN IF s.is_bounded
           THEN LET min_b == s.min_angle_rad
                    max_b == s.max_angle_rad
                    bounded_span == max_b - min_b
                IN  IF bounded_span > SPAN_EPSILON
                      THEN LET angle_in_span == constrain(raw - min_b, 0, bounded_span)
                           IN  constrain(round(angle_in_span * s.steps_per_revolution,
                                               bounded_span),
                                         0, s.steps_per_revolution)
                      ELSE 0
           ELSE round((raw - offset) * s.steps_per_revolution, TWO_PI_MILLI)
    ELSE 0

----------------------------------------------------------------------------
(* Serial output and bookkeeping *)

Line(k, v) == [kind |-> k, val |-> v]

StepLine(n) == Line("STEP", n)

\* what doReportSettings prints
SettingsDump == Line("settings", 0)

Entry(op, cmd, ok) ==
  [op |-> op, arg |-> cmd, ok |-> ok, reported_before |-> last_reported_step]

\* of the handler before the newest one only the kind and outcome are kept
Push(e) ==
  <<e, [op |-> history[1].op, ok |-> history[1].ok,
        reported_before |-> history[1].reported_before]>>

----------------------------------------------------------------------------
(* State after setup() *)

Init ==
  /\ variant \in Variants
  /\ preset_modes = PresetTable(variant)
  /\ current_preset_mode_idx = 0
  /\ current_knob_settings = PresetTable(variant)[0]
  /\ current_step_output = 0
  /\ last_reported_step = SENTINEL
  /\ motor_shaft_offset = 0
  /\ shaft_angle \in Angles
  /\ P_angle_P = PresetTable(variant)[0].detent_strength_P
  /\ move_target = Frac(0, 1)
  /\ serial_out = <<SettingsDump>>
  /\ pc = "loopFOC"
  /\ history = <<[op |-> "setup", arg |-> <<>>, ok |-> TRUE,
                  reported_before |-> SENTINEL]>>
  /\ settings_changed = FALSE
  /\ ncmds = 0
  /\ nloops = 0

----------------------------------------------------------------------------
(* loop(): motor.loopFOC(), then command.run(), then haptics and step report *)

\* motor.loopFOC() refreshes motor.shaft_angle from the sensor
loopFOC ==
  /\ pc = "loopFOC"
  /\ nloops < MaxLoops
  /\ nloops' = nloops + 1
  /\ \E a \in Angles : shaft_angle' = a
  /\ pc' = "run"
  /\ UNCHANGED <<variant, preset_modes, current_preset_mode_idx,
                 current_knob_settings, current_step_output, last_reported_step,
                 motor_shaft_offset, P_angle_P, move_target, serial_out, history,
                 settings_changed, ncmds>>

\* a command callback runs inside command.run()
Dispatched(op, cmd, ok) ==
  /\ pc = "run"
  /\ ncmds < MaxCmds
  /\ ncmds' = ncmds + 1
  /\ history' = Push(Entry(op, cmd, ok))
  /\ settings_changed' = (settings_changed \/ ok)
  /\ UNCHANGED <<variant, preset_modes, shaft_angle, move_target, pc, nloops>>

\* applyCurrentSettingsToMotor(), given the settings just written
applyCurrentSettingsToMotor(s) ==
  /\ P_angle_P' = s.detent_strength_P
  /\ last_reported_step' = SENTINEL

\* a callback that changes nothing but the serial output
Rejected(lines) ==
  /\ serial_out' = lines
  /\ UNCHANGED <<current_preset_mode_idx, current_knob_settings,
                 current_step_output, last_reported_step, motor_shaft_offset,
                 P_angle_P>>

\* Accepted without the strcpy of "Custom"
Accepted_NoRename(s, lines) ==
  /\ current_knob_settings' = s
  /\ applyCurrentSettingsToMotor(s)
  /\ serial_out' = lines
  /\ UNCHANGED <<current_preset_mode_idx, current_step_output, motor_shaft_offset>>

\* a field setter that accepted its value: new settings, renamed "Custom"
Accepted(s, lines) ==
  /\ current_knob_settings' = [s EXCEPT !.name = "Custom"]
  /\ applyCurrentSettingsToMotor(s)
  /\ serial_out' = lines
  /\ UNCHANGED <<current_preset_mode_idx, current_step_output, motor_shaft_offset>>

\* doSwitchPresetMode that loads the preset without recording its index
doSwitchPresetMode_NoIndex(cmd) ==
  LET idx == atoi(cmd)
      valid == idx >= 0 /\ idx < MAX_PRESET_MODES
  IN  /\ Dispatched("M", cmd, valid)
      /\ IF valid
           THEN /\ current_knob_settings' = preset_modes[idx]
                /\ applyCurrentSettingsToMotor(preset_modes[idx])
                /\ serial_out' = <<Line("ok", idx), SettingsDump>>
                /\ UNCHANGED <<current_preset_mode_idx, current_step_output,
                               motor_shaft_offset>>
           ELSE Rejected(<<Line("error", 0)>>)

\* doSwitchPresetMode that forces a report before it tests the index
doSwitchPresetMode_ApplyFirst(cmd) ==
  LET idx == atoi(cmd)
      valid == idx >= 0 /\ idx < MAX_PRESET_MODES
  IN  /\ Dispatched("M", cmd, valid)
      /\ last_reported_step' = SENTINEL
      /\ IF valid
           THEN /\ current_preset_mode_idx' = idx
                /\ current_knob_settings' = preset_modes[idx]
                /\ P_angle_P' = preset_modes[idx].detent_strength_P
                /\ serial_out' = <<Line("ok", idx), SettingsDump>>
                /\ UNCHANGED <<current_step_output, motor_shaft_offset>>
           ELSE /\ serial_out' = <<Line("error", 0)>>
                /\ UNCHANGED <<current_preset_mode_idx, current_knob_settings,
                               current_step_output, motor_shaft_offset, P_angle_P>>

doSwitchPresetMode(cmd) ==
  LET idx == atoi(cmd)
      valid == idx >= 0 /\ idx < MAX_PRESET_MODES
  IN  /\ Dispatched("M", cmd, valid)
      /\ IF valid
           THEN /\ current_preset_mode_idx' = idx
                /\ current_knob_settings' = preset_modes[idx]
                /\ applyCurrentSettingsToMotor(preset_modes[idx])
                /\ serial_out' = <<Line("ok", idx), SettingsDump>>
                /\ UNCHANGED <<current_step_output, motor_shaft_offset>>
           ELSE Rejected(<<Line("error", 0)>>)

\* doCalibrate without the test of is_bounded
doCalibrate_Always(cmd) ==
  /\ Dispatched("C", cmd, TRUE)
  /\ motor_shaft_offset' = shaft_angle
  /\ current_step_output' = 0
  /\ last_reported_step' = SENTINEL
  /\ serial_out' = <<Line("ok", shaft_angle)>>
  /\ UNCHANGED <<current_preset_mode_idx, current_knob_settings, P_angle_P>>

\* doCalibrate that keeps last_reported_step
doCalibrate_NoReset(cmd) ==
  LET unbounded == ~current_knob_settings.is_bounded
  IN  /\ Dispatched("C", cmd, unbounded)
      /\ IF unbounded
           THEN /\ motor_shaft_offset' = shaft_angle
                /\ current_step_output' = 0
                /\ serial_out' = <<Line("ok", shaft_angle)>>
                /\ UNCHANGED <<current_preset_mode_idx, current_knob_settings,
                               P_angle_P, last_reported_step>>
           ELSE Rejected(<<Line("info", 0)>>)

doCalibrate(cmd) ==
  LET unbounded == ~current_knob_settings.is_bounded
  IN  /\ Dispatched("C", cmd, unbounded)
      /\ IF unbounded
           THEN /\ motor_shaft_offset' = shaft_angle
                /\ current_step_output' = 0
                /\ last_reported_step' = SENTINEL
                /\ serial_out' = <<Line("ok", shaft_angle)>>
                /\ UNCHANGED <<current_preset_mode_idx, current_knob_settings,
                               P_angle_P>>
           ELSE Rejected(<<Line("info", 0)>>)

doReportSettings(cmd) ==
  /\ Dispatched("S", cmd, FALSE)
  /\ Rejected(<<SettingsDump>>)

doSetNumDetents(cmd) ==
  LET val == atoi(cmd)
  IN  /\ Dispatched("d", cmd, val >= 0)
      /\ IF val >= 0
           THEN Accepted([current_knob_settings EXCEPT !.num_detents = val],
                         <<Line("ok", val), SettingsDump>>)
           ELSE Rejected(<<Line("error", 0)>>)

\* doSetDetentStrength without the test of the sign
doSetDetentStrength_AnySign(cmd) ==
  LET val == atof(cmd)
  IN  /\ Dispatched("p", cmd, TRUE)
      /\ Accepted([current_knob_settings EXCEPT !.detent_strength_P = val],
                  <<Line("ok", val), SettingsDump>>)

doSetDetentStrength(cmd) ==
  LET val == atof(cmd)
  IN  /\ Dispatched("p", cmd, val >= 0)
      /\ IF val >= 0
           THEN Accepted([current_knob_settings EXCEPT !.detent_strength_P = val],
                         <<Line("ok", val), SettingsDump>>)
           ELSE Rejected(<<Line("error", 0)>>)

\* the first sketch accepts 0, the second requires a positive value
\* the guard of the first sketch used by both
StepsPerRevAccepted_ZeroInBoth(v, val) == val >= 0

StepsPerRevAccepted(v, val) == IF v = 1 THEN val >= 0 ELSE val > 0

doSetStepsPerRev(cmd) ==
  LET val == atoi(cmd)
      good == StepsPerRevAccepted(variant, val)
  IN  /\ Dispatched("r", cmd, good)
      /\ IF good
           THEN Accepted([current_knob_settings EXCEPT !.steps_per_revolution = val],
                         <<Line("ok", val), SettingsDump>>)
           ELSE Rejected(<<Line("error", 0)>>)

\* doSetBounded that takes every non-zero value as "bounded"
doSetBounded_NonZero(cmd) ==
  LET val == atoi(cmd)
  IN  /\ Dispatched("b", cmd, TRUE)
      /\ Accepted([current_knob_settings EXCEPT !.is_bounded = (val # 0)],
                  IF val # 0
                    THEN <<Line("ok", val), SettingsDump>>
                    ELSE <<Line("ok", val), Line("info", 0), SettingsDump>>)

doSetBounded(cmd) ==
  LET val == atoi(cmd)
      good == val = 0 \/ val = 1
  IN  /\ Dispatched("b", cmd, good)
      /\ IF good
           THEN Accepted([current_knob_settings EXCEPT !.is_bounded = (val = 1)],
                         IF val = 1
                           THEN <<Line("ok", val), SettingsDump>>
                           ELSE <<Line("ok", val), Line("info", 0), SettingsDump>>)
           ELSE Rejected(<<Line("error", 0)>>)

doSetMinAngle(cmd) ==
  LET val == atof(cmd)
  IN  /\ Dispatched("n", cmd, TRUE)
      /\ Accepted([current_knob_settings EXCEPT !.min_angle_rad = val],
                  <<Line("ok", val), SettingsDump>>)

\* doSetMaxAngle that writes the minimum
doSetMaxAngle_WritesMin(cmd) ==
  LET val == atof(cmd)
  IN  /\ Dispatched("x", cmd, TRUE)
      /\ Accepted([current_knob_settings EXCEPT !.min_angle_rad = val],
                  <<Line("ok", val), SettingsDump>>)

doSetMaxAngle(cmd) ==
  LET val == atof(cmd)
  IN  /\ Dispatched("x", cmd, TRUE)
      /\ Accepted([current_knob_settings EXCEPT !.max_angle_rad = val],
                  <<Line("ok", val), SettingsDump>>)

\* the rest of loop() after command.run(): haptic target, gain, step report
loop ==
  LET raw_shaft_angle == shaft_angle
      new_step_output == StepOutput(raw_shaft_angle, current_knob_settings,
                                    motor_shaft_offset)
      changed == new_step_output # last_reported_step
  IN  /\ pc = "run"
      /\ pc' = "loopFOC"
      /\ P_angle_P' = current_knob_settings.detent_strength_P
      /\ move_target' = HapticTarget(raw_shaft_angle, current_knob_settings,
                                     motor_shaft_offset)
      /\ current_step_output' = new_step_output
      /\ last_reported_step' = IF changed THEN new_step_output ELSE last_reported_step
      /\ serial_out' = IF changed THEN <<StepLine(new_step_output)>> ELSE <<>>
      /\ history' = Push(Entry("loop", <<>>, changed))
      /\ settings_changed' = FALSE
      /\ UNCHANGED <<variant, preset_modes, current_preset_mode_idx,
                     current_knob_settings, motor_shaft_offset, shaft_angle,
                     ncmds, nloops>>

Next ==
  \/ loopFOC
  \/ \E cmd \in IndexTexts : doSwitchPresetMode(cmd)
  \/ doCalibrate(<<>>)
  \/ doReportSettings(<<>>)
  \/ \E cmd \in CountTexts : doSetNumDetents(cmd)
  \/ \E cmd \in FloatTexts : doSetDetentStrength(cmd)
  \/ \E cmd \in CountTexts : doSetStepsPerRev(cmd)
  \/ \E cmd \in FlagTexts : doSetBounded(cmd)
  \/ \E cmd \in FloatTexts : doSetMinAngle(cmd)
  \/ \E cmd \in FloatTexts : doSetMaxAngle(cmd)
  \/ loop

Spec == Init /\ [][Next]_vars

----------------------------------------------------------------------------
(* One tick from any configuration the setters can produce.  The setters   *)
(* take any number, so every combination below is a configuration of the   *)
(* running sketch; the tick is then applied to every shaft angle of a      *)
(* contiguous range around the spans and to two angles far outside.        *)

MaxCount == 3

FnCounts == 0 .. MaxCount

FnMins == {-3, 0, 10}

FnMaxs == {1, 10, 15, 37}

FnOffsets == {0, 5}

\* every thousandth from below the lowest minimum to above the highest maximum
SweepAngles == -8 .. 42

FnAngles == SweepAngles \cup {-1745260, 7000}

FnSettings ==
  { KnobSettings("Custom", b, lo, hi, d, 10000, r) :
      b \in BOOLEAN, lo \in FnMins, hi \in FnMaxs, d \in FnCounts, r \in FnCounts }

InitFn ==
  /\ variant \in Variants
  /\ preset_modes = PresetTable(variant)
  /\ current_preset_mode_idx = 0
  /\ current_knob_settings \in FnSettings
  /\ current_step_output = 0
  /\ last_reported_step = SENTINEL
  /\ motor_shaft_offset \in FnOffsets
  /\ shaft_angle \in FnAngles
  /\ P_angle_P = current_knob_settings.detent_strength_P
  /\ move_target = Frac(0, 1)
  /\ serial_out = <<SettingsDump>>
  /\ pc = "run"
  \* the setters have run, "b" last
  /\ history = <<[op |-> "b",
                  arg |-> IF current_knob_settings.is_bounded THEN <<"1">> ELSE <<"0">>,
                  ok |-> TRUE, reported_before |-> SENTINEL]>>
  /\ settings_changed = TRUE
  /\ ncmds = MaxCmds
  /\ nloops = 1

NextFn == loop

SpecFn == InitFn /\ [][NextFn]_vars

\* the divisors of the divisions a tick performs with settings s, in the
\* order of the code: haptic target first, step output second
TickDivisors(s) ==
  LET bounded_span == s.max_angle_rad - s.min_angle_rad
      haptic ==
        IF s.is_bounded
          THEN IF bounded_span <= SPAN_EPSILON
                 THEN {}
                 ELSE IF s.num_detents > 0
                   THEN LET n == IF s.num_detents > 0 THEN s.num_detents ELSE 1
                        \* bounded_span / n, then angle / detent_spacing
                        IN  {Frac(n, 1), Frac(bounded_span, n)}
                   ELSE {}
          ELSE IF s.num_detents > 0
                 THEN LET n == IF s.num_detents > 0 THEN s.num_detents ELSE 1
                      \* _2PI / n, then angle / detent_spacing
                      IN  {Frac(n, 1), Frac(TWO_PI_MILLI, n)}
                 ELSE {}
      steps ==
        IF s.steps_per_revolution > 0
          THEN IF s.is_bounded
                 THEN IF bounded_span > SPAN_EPSILON
                        \* bounded_span / steps, then angle / step_rad_in_bound
                        THEN {Frac(s.steps_per_revolution, 1),
                              Frac(bounded_span, s.steps_per_revolution)}
                        ELSE {}
                 \* _2PI / steps, then angle / step_rad_unbounded
                 ELSE {Frac(s.steps_per_revolution, 1),
                       Frac(TWO_PI_MILLI, s.steps_per_revolution)}
          ELSE {}
  IN  haptic \cup steps

----------------------------------------------------------------------------
(* Properties *)

Latest == history[1]

Previous == history[2]

\* the state right after the tick part of loop(), before the next sensor read
JustTicked == pc = "loopFOC" /\ Latest.op = "loop"

\* the step from the current state to the next is the tick part of loop()
IsTick == pc = "run" /\ pc' = "loopFOC"

\* the step from the current state to the next runs the callback of command op
IsCmd(op) == ncmds' = ncmds + 1 /\ history'[1].op = op

\* the fraction f lies in [low, high]
FracWithin(f, low, high) == low * f.den <= f.num /\ f.num <= high * f.den

FracIs(f, a) == f.num = a * f.den

\* C1 as stated: whenever the active configuration is bounded, the target
\* angle a tick passes to motor.move lies within [min_angle, max_angle],
\* also when the setters have made min_angle > max_angle.
C1_TargetWithinBoundsAlways ==
  (JustTicked /\ current_knob_settings.is_bounded)
    => FracWithin(move_target, current_knob_settings.min_angle_rad,
                  current_knob_settings.max_angle_rad)

\* C1 amended: whenever the active configuration is bounded and
\* min_angle <= max_angle, the target angle a tick passes to motor.move lies
\* within [min_angle, max_angle]; when min_angle > max_angle the target is
\* min_angle for a shaft angle below min_angle and max_angle otherwise.
C1_TargetWithinOrderedBounds ==
  (JustTicked /\ current_knob_settings.is_bounded)
    => LET lo == current_knob_settings.min_angle_rad
           hi == current_knob_settings.max_angle_rad
       IN  IF lo <= hi
             THEN FracWithin(move_target, lo, hi)
             ELSE FracIs(move_target, IF shaft_angle < lo THEN lo ELSE hi)

\* a tick of a bounded configuration edited through the max-angle setter,
\* with the shaft far below the span: the target is min_angle
C1_Witness ==
  /\ JustTicked
  /\ current_knob_settings.is_bounded
  /\ current_knob_settings.name = "Custom"
  /\ current_knob_settings.min_angle_rad < current_knob_settings.max_angle_rad
  /\ shaft_angle < current_knob_settings.min_angle_rad - 1000000
  /\ FracIs(move_target, current_knob_settings.min_angle_rad)

\* C2: (a) a tick that follows a tick with no command in between and computes
\* the same stepIndex emits no STEP report; (b) the first tick after a
\* successful configuration mutation (preset switch, field edit, unbounded
\* calibration) emits a STEP report whatever the step value is.
C2_ChangeSuppression ==
  [][IsTick =>
       /\ (Latest.op = "loop" /\ current_step_output' = current_step_output)
            => serial_out' = <<>>
       /\ settings_changed => serial_out' = <<StepLine(current_step_output')>>]_vars

\* C3: the step index computed from the current configuration, calibration
\* offset and shaft angle is never the sentinel of last_reported_step.
C3_SentinelIsNoStep ==
  StepOutput(shaft_angle, current_knob_settings, motor_shaft_offset) # SENTINEL

\* the active configuration, the preset index, the calibration offset and
\* last_reported_step keep their values in the step to the next state
ConfigurationUntouched ==
  UNCHANGED <<current_knob_settings, current_preset_mode_idx,
              motor_shaft_offset, last_reported_step>>

OnlyLine(k) == Len(serial_out') = 1 /\ serial_out'[1].kind = k

ValidIndex(i) == i \in 0 .. MAX_PRESET_MODES - 1

\* C4: a switch-preset command with an index outside 0..MAX_PRESET_MODES-1
\* changes neither the active configuration nor current_preset_mode_idx, the
\* calibration offset or last_reported_step, and prints only an error.
C4_BadIndexIsNoOp ==
  [][(IsCmd("M") /\ ~ValidIndex(atoi(history'[1].arg)))
       => (ConfigurationUntouched /\ OnlyLine("error"))]_vars

\* an out-of-range preset command arrived after preset 1..5 had been loaded
\* and a step had been reported; all of that is still in place
C4_Witness ==
  /\ Latest.op = "M"
  /\ ~ValidIndex(atoi(Latest.arg))
  /\ current_preset_mode_idx # 0
  /\ current_knob_settings = preset_modes[current_preset_mode_idx]
  /\ last_reported_step # SENTINEL

\* the command is a setter of op with a value its field does not admit
NegativeCount(e) == e.op \in {"d", "r"} /\ atoi(e.arg) < 0

NegativeGain(e) == e.op = "p" /\ atof(e.arg) < 0

NotAFlag(e) == e.op = "b" /\ atoi(e.arg) \notin {0, 1}

\* C5: a setter given a negative num_detents, detent_strength or
\* steps_per_revolution, or an is_bounded value other than 0 or 1, leaves the
\* whole active configuration (name included) and last_reported_step
\* unchanged and prints only an error.
C5_BadValueRejected ==
  [][(ncmds' = ncmds + 1 /\ (\/ NegativeCount(history'[1])
                             \/ NegativeGain(history'[1])
                             \/ NotAFlag(history'[1])))
       => (ConfigurationUntouched /\ OnlyLine("error"))]_vars

\* "b7" or "b-1" right after a refused num_detents or detent_strength (both
\* are refused for negative values only), on a preset that had already
\* reported a step: the preset is still active and no report is pending
C5_Witness ==
  /\ Len(history) = 2
  /\ NotAFlag(Latest)
  /\ Previous.op \in {"d", "p"}
  /\ ~Previous.ok
  /\ current_knob_settings = preset_modes[current_preset_mode_idx]
  /\ last_reported_step # SENTINEL

\* the whole of s is an integer: optional sign, at least one digit, no more
IsIntegerText(s) ==
  LET p == SignAt(s)
      e == DigitsEnd(s, p.at)
  IN  e > p.at /\ e = Len(s) + 1

\* the whole of s is a decimal number: optional sign, digits, optional
\* point and fraction digits, at least one digit before the point
IsDecimalText(s) ==
  LET p == SignAt(s)
      e == DigitsEnd(s, p.at)
  IN  /\ e > p.at
      /\ \/ e = Len(s) + 1
         \/ e <= Len(s) /\ s[e] = "." /\ DigitsEnd(s, e + 1) = Len(s) + 1

\* the command is a field setter whose text is not a number of the field's type
Unparsable(e) ==
  \/ e.op \in {"d", "r", "b"} /\ ~IsIntegerText(e.arg)
  \/ e.op \in {"p", "n", "x"} /\ ~IsDecimalText(e.arg)

\* C6: a field setter whose text does not parse as a number of the field's
\* type leaves the whole active configuration unchanged and prints only an
\* error.
C6_UnparsableRejected ==
  [][(ncmds' = ncmds + 1 /\ Unparsable(history'[1]))
       => (current_knob_settings' = current_knob_settings /\ OnlyLine("error"))]_vars

Setters == {"d", "p", "r", "b", "n", "x"}

\* the field each setter names
FieldOf(op) ==
  CASE op = "d" -> "num_detents"
    [] op = "p" -> "detent_strength_P"
    [] op = "r" -> "steps_per_revolution"
    [] op = "b" -> "is_bounded"
    [] op = "n" -> "min_angle_rad"
    [] op = "x" -> "max_angle_rad"

\* the value each setter takes from its text
ValueOf(e) ==
  CASE e.op \in {"d", "r"} -> atoi(e.arg)
    [] e.op = "b" -> (atoi(e.arg) = 1)
    [] e.op \in {"p", "n", "x"} -> atof(e.arg)

\* C7: a successful field setter gives the named field the value of the
\* command and the name "Custom"; every other field, the preset index, the
\* preset table and the calibration offset keep their values.
C7_SetterFrame ==
  [][(ncmds' = ncmds + 1 /\ history'[1].op \in Setters /\ history'[1].ok)
       => /\ current_knob_settings'.name = "Custom"
          /\ current_knob_settings'[FieldOf(history'[1].op)] = ValueOf(history'[1])
          /\ \A f \in DOMAIN current_knob_settings \ {"name", FieldOf(history'[1].op)} :
               current_knob_settings'[f] = current_knob_settings[f]
          /\ UNCHANGED <<current_preset_mode_idx, preset_modes, motor_shaft_offset>>]_vars

\* "d1" on the volume preset: 1 detent, name "Custom", the rest as preset 3
C7_Witness ==
  /\ Latest.op = "d"
  /\ Latest.ok
  /\ current_preset_mode_idx = 3
  /\ current_knob_settings =
       [preset_modes[3] EXCEPT !.name = "Custom", !.num_detents = 1]

\* C8: the preset table always equals the table setup() wrote, and right
\* after a switch-preset command with a valid index i the active
\* configuration equals that preset i in every field and the name, and
\* current_preset_mode_idx is i.
C8_PresetLoadedWhole ==
  /\ preset_modes = PresetTable(variant)
  /\ (Latest.op = "M" /\ ValidIndex(atoi(Latest.arg)))
       => /\ current_knob_settings = PresetTable(variant)[atoi(Latest.arg)]
          /\ current_preset_mode_idx = atoi(Latest.arg)

\* preset 5 loaded over a configuration that a setter had renamed "Custom"
C8_Witness ==
  /\ Len(history) = 2
  /\ Latest.op = "M"
  /\ atoi(Latest.arg) = 5
  /\ Previous.op \in Setters
  /\ Previous.ok
  /\ current_knob_settings.name # "Custom"

\* C9: a calibrate command while the active configuration is bounded leaves
\* the calibration offset, last_reported_step and the active configuration
\* unchanged and prints only an informational line.
C9_CalibrateBoundedSkipped ==
  [][(IsCmd("C") /\ current_knob_settings.is_bounded)
       => (ConfigurationUntouched /\ OnlyLine("info"))]_vars

\* calibrate was refused on a bounded preset while the shaft stood away from
\* the offset and after a step had been reported
C9_Witness ==
  /\ Latest.op = "C"
  /\ current_knob_settings.is_bounded
  /\ motor_shaft_offset # shaft_angle
  /\ last_reported_step # SENTINEL
  /\ serial_out = <<Line("info", 0)>>

\* C10: a calibrate command while unbounded sets the calibration offset to
\* the shaft angle and last_reported_step to the sentinel, and the tick that
\* follows it (same shaft angle) computes stepIndex 0 and prints STEP:0.
C10_CalibrateForcesStepZero ==
  [][/\ (IsCmd("C") /\ ~current_knob_settings.is_bounded)
          => (motor_shaft_offset' = shaft_angle /\ last_reported_step' = SENTINEL)
     /\ (IsTick /\ Latest.op = "C" /\ Latest.ok)
          => (current_step_output' = 0 /\ serial_out' = <<StepLine(0)>>)]_vars

\* STEP:0 printed by the tick after a calibration away from angle 0, when
\* the step reported last before the calibration was 0 as well
C10_Witness ==
  /\ Len(history) = 2
  /\ JustTicked
  /\ Previous.op = "C"
  /\ Previous.ok
  /\ Previous.reported_before = 0
  /\ motor_shaft_offset = shaft_angle
  /\ shaft_angle # 0
  /\ serial_out = <<StepLine(0)>>

\* the step to the next state is the command "r" with value 0
IsStepsZeroCmd == IsCmd("r") /\ atoi(history'[1].arg) = 0

StepsZeroTaken ==
  current_knob_settings' =
    [current_knob_settings EXCEPT !.steps_per_revolution = 0, !.name = "Custom"]

\* C11 as stated: setting steps_per_revolution to 0 is accepted (the field
\* becomes 0, the name "Custom"), and while steps_per_revolution is 0 every
\* tick computes stepIndex 0.
C11_ZeroStepsLegal ==
  [][/\ IsStepsZeroCmd => StepsZeroTaken
     /\ (IsTick /\ current_knob_settings.steps_per_revolution = 0)
          => current_step_output' = 0]_vars

\* C11 amended: the first sketch accepts steps_per_revolution 0 (the field
\* becomes 0, the name "Custom"); the second sketch refuses it with an error
\* and leaves the configuration as it was; while steps_per_revolution is 0
\* every tick computes stepIndex 0, bounded or not.
C11_ZeroStepsLegalInFirstSketch ==
  [][/\ (IsStepsZeroCmd /\ variant = 1) => StepsZeroTaken
     /\ (IsStepsZeroCmd /\ variant = 2)
          => (ConfigurationUntouched /\ OnlyLine("error"))
     /\ (IsTick /\ current_knob_settings.steps_per_revolution = 0)
          => current_step_output' = 0]_vars

\* a tick with steps_per_revolution 0 on a bounded configuration with a
\* valid span and the shaft inside it: step 0
C11_Witness ==
  /\ JustTicked
  /\ current_knob_settings.steps_per_revolution = 0
  /\ current_knob_settings.is_bounded
  /\ current_knob_settings.min_angle_rad < shaft_angle
  /\ shaft_angle < current_knob_settings.max_angle_rad
  /\ current_step_output = 0

ValidSpan(s) == s.max_angle_rad - s.min_angle_rad > SPAN_EPSILON

\* a fraction as a pair with denominator k (the value times k, and k)
OverK(f, k) == Frac((f.num * k) \div f.den, k)

\* C12: for bounded settings with a valid span and num_detents = k > 0, the
\* target angles produced over all shaft angles are exactly the k+1 values
\* min + i*(max-min)/k, i in 0..k, among them min_angle and max_angle.
C12_DetentPositions ==
  LET s == current_knob_settings
      k == s.num_detents
      targets == { OverK(HapticTarget(a, s, motor_shaft_offset), k) : a \in FnAngles }
  IN  (s.is_bounded /\ ValidSpan(s) /\ k > 0)
        => /\ targets = { Frac(s.min_angle_rad * k
                                 + i * (s.max_angle_rad - s.min_angle_rad), k) :
                            i \in 0 .. k }
           /\ Cardinality(targets) = k + 1
           /\ \A a \in FnAngles :
                LET f == HapticTarget(a, s, motor_shaft_offset)
                IN  (f.num * k) % f.den = 0
           /\ OverK(Frac(s.min_angle_rad, 1), k) \in targets
           /\ OverK(Frac(s.max_angle_rad, 1), k) \in targets

\* a tick with three detents commanded the second of the four positions
C12_Witness ==
  /\ JustTicked
  /\ current_knob_settings.is_bounded
  /\ ValidSpan(current_knob_settings)
  /\ current_knob_settings.num_detents = 3
  /\ move_target = Frac(3 * current_knob_settings.min_angle_rad
                          + (current_knob_settings.max_angle_rad
                               - current_knob_settings.min_angle_rad), 3)

\* C13: for bounded settings with a valid span and steps_per_revolution =
\* n > 0, stepIndex does not decrease when the shaft angle grows, takes
\* exactly the values 0..n over [min, max] (0 at min, n at max), and is 0
\* below min and n above max.
C13_StepMonotone ==
  LET s == current_knob_settings
      n == s.steps_per_revolution
      step(a) == StepOutput(a, s, motor_shaft_offset)
  IN  (s.is_bounded /\ ValidSpan(s) /\ n > 0)
        => /\ \A a \in SweepAngles :
                a + 1 \in SweepAngles => step(a) <= step(a + 1)
           /\ \A a \in FnAngles \ SweepAngles : \A b \in SweepAngles :
                /\ a < b => step(a) <= step(b)
                /\ b < a => step(b) <= step(a)
           /\ { step(a) : a \in s.min_angle_rad .. s.max_angle_rad } = 0 .. n
           /\ step(s.min_angle_rad) = 0
           /\ step(s.max_angle_rad) = n
           /\ \A a \in FnAngles :
                /\ a < s.min_angle_rad => step(a) = 0
                /\ a > s.max_angle_rad => step(a) = n

\* a tick inside the span reported a step strictly between 0 and the top
C13_Witness ==
  /\ JustTicked
  /\ current_knob_settings.is_bounded
  /\ ValidSpan(current_knob_settings)
  /\ current_knob_settings.steps_per_revolution = 3
  /\ current_knob_settings.min_angle_rad < shaft_angle
  /\ shaft_angle < current_knob_settings.max_angle_rad
  /\ current_step_output = 2
  /\ serial_out = <<StepLine(2)>>

\* C14: no division of a tick has a zero divisor, whatever the setters made
\* of the configuration (min_angle >= max_angle, num_detents 0,
\* steps_per_revolution 0 included); and a tick of a bounded configuration
\* with max - min <= 0.001 divides nothing, computes stepIndex 0 and
\* commands constrain(shaft angle, min, max).
C14_NoZeroDivisor ==
  LET s == current_knob_settings
  IN  /\ \A d \in TickDivisors(s) : d.num # 0 /\ d.den # 0
      /\ (s.is_bounded /\ ~ValidSpan(s))
           => /\ TickDivisors(s) = {}
              /\ JustTicked
                   => /\ current_step_output = 0
                      /\ move_target =
                           Frac(constrain(shaft_angle, s.min_angle_rad,
                                          s.max_angle_rad), 1)

\* a tick with min_angle > max_angle, detents and steps switched on and the
\* shaft between the two: step 0, target min_angle
C14_Witness ==
  /\ JustTicked
  /\ current_knob_settings.is_bounded
  /\ current_knob_settings.num_detents > 0
  /\ current_knob_settings.steps_per_revolution > 0
  /\ current_knob_settings.max_angle_rad < shaft_angle
  /\ shaft_angle < current_knob_settings.min_angle_rad
  /\ current_step_output = 0
  /\ move_target = Frac(current_knob_settings.min_angle_rad, 1)

\* C17: for bounded settings with a valid span and num_detents =
\* steps_per_revolution = k > 0, the step a tick reports is the index of the
\* detent it commands: targetAngle = min_angle + stepIndex * (max - min)/k.
C17_StepIsDetentIndex ==
  LET s == current_knob_settings
      k == s.num_detents
  IN  (JustTicked /\ s.is_bounded /\ ValidSpan(s) /\ k > 0
         /\ s.steps_per_revolution = k)
        => /\ move_target.den * (s.min_angle_rad * k
                                   + current_step_output
                                       * (s.max_angle_rad - s.min_angle_rad))
                = move_target.num * k
           /\ \A a \in FnAngles :
                LET f == HapticTarget(a, s, motor_shaft_offset)
                IN  f.den * (s.min_angle_rad * k
                               + StepOutput(a, s, motor_shaft_offset)
                                   * (s.max_angle_rad - s.min_angle_rad))
                      = f.num * k

\* a tick far above the span with three detents and three steps: step 3,
\* target max_angle
C17_Witness ==
  /\ JustTicked
  /\ current_knob_settings.is_bounded
  /\ ValidSpan(current_knob_settings)
  /\ current_knob_settings.num_detents = 3
  /\ current_knob_settings.steps_per_revolution = 3
  /\ shaft_angle > current_knob_settings.max_angle_rad + 1000
  /\ current_step_output = 3
  /\ move_target.num = 3 * current_knob_settings.max_angle_rad
  /\ move_target.den = 3

\* C15: after every tick the gain of the position controller
\* (motor.P_angle.P) is the detent_strength of the active configuration,
\* bounded or not, and it is not negative.
C15_GainIsDetentStrength ==
  Latest.op = "loop"
    => /\ P_angle_P = current_knob_settings.detent_strength_P
       /\ P_angle_P >= 0

\* a tick after "p1.5" and a second command: the gain is 1.5
C15_Witness ==
  /\ JustTicked
  /\ ncmds = 2
  /\ current_knob_settings.detent_strength_P = 1500
  /\ P_angle_P = 1500

\* C16: current_preset_mode_idx stays within 0..MAX_PRESET_MODES-1, and a
\* configuration whose name is not "Custom" equals
\* preset_modes[current_preset_mode_idx] in every field.
C16_PresetNameMeansPreset ==
  /\ ValidIndex(current_preset_mode_idx)
  /\ current_knob_settings.name # "Custom"
       => current_knob_settings = preset_modes[current_preset_mode_idx]

\* preset 5 still carries its name after a setter refused its value
C16_Witness ==
  /\ Latest.op \in Setters
  /\ ~Latest.ok
  /\ current_preset_mode_idx = 5
  /\ current_knob_settings.name = PresetTable(variant)[5].name

====
